---- MODULE Spec2Model ----
(***************************************************************************)
(* TimeSeriesAnalyzer (src/main.cpp): the polling loop run(), parseData,   *)
(* and the indicator functions over the members prices / timestamps.       *)
(*                                                                         *)
(* Numbers.  A C++ double is modelled by its exact real value:             *)
(*   - a rational <<n, d>> in lowest terms (d > 0),                        *)
(*   - a value a + b * sqrt(r) where std::sqrt has no rational result,     *)
(*   - the IEEE-754 specials NaN and +Inf produced by x / 0.0.             *)
(* Rounding of binary64 is not represented; no formula below depends on    *)
(* the low bits of a result (only on guards, on 0, NaN, Inf, 100 and on    *)
(* comparisons of means of small integers, whose quotients differ by far   *)
(* more than one ulp).                                                     *)
(***************************************************************************)
EXTENDS Integers, Sequences, FiniteSets

VARIABLES
    pc,          \* position of run(); Idle / Returned around a direct call
    payload,     \* std::string data returned by fetchData()
    prices,      \* std::vector<double> prices
    timestamps,  \* std::vector<long long> timestamps
    report,      \* what the last completed report printed
    reads,       \* indices of prices read by the report being printed
    err,         \* why the process ended ("" while it runs)
    call         \* the last direct call of an indicator function and its result

vars == <<pc, payload, prices, timestamps, report, reads, err, call>>

----------------------------------------------------------------------------
(* Bounds of the model *)

\* longest series the indicator functions are called on
MaxLen == 4
\* number of well-formed timestamp keys a payload can hold
NKeys == 2

\* closing prices ("4. close" strings std::stod accepts); std::stod has no
\* sign or range check, so a negative close is parsed like any other
PriceVals == {-1, 0, 1, 2}
\* the series of the trend examples of the specification
Examples == {<<10, 10, 10, 10>>, <<10, 9, 1, 1>>}
Periods == 1..(MaxLen + 1)
Multipliers == {-1, 0, 1, 2}

----------------------------------------------------------------------------
(* Exact rational arithmetic *)

RECURSIVE GCD(_, _)
GCD(a, b) == IF b = 0 THEN a ELSE GCD(b, a % b)

Abs(x) == IF x < 0 THEN -x ELSE x

QNorm(n, d) ==
    LET sn == IF d < 0 THEN -n ELSE n
        sd == Abs(d)
        g  == GCD(Abs(sn), sd)
    IN  <<sn \div g, sd \div g>>

Q(n) == <<n, 1>>
QAdd(x, y) == QNorm(x[1] * y[2] + y[1] * x[2], x[2] * y[2])
QSub(x, y) == QNorm(x[1] * y[2] - y[1] * x[2], x[2] * y[2])
QMul(x, y) == QNorm(x[1] * y[1], x[2] * y[2])
QDiv(x, y) == QNorm(x[1] * y[2], x[2] * y[1])
QLess(x, y) == x[1] * y[2] < y[1] * x[2]

IsSquare(n) == \E k \in 0..n : k * k = n
Root(n) == CHOOSE k \in 0..n : k * k = n

----------------------------------------------------------------------------
(* Values of type double *)

Num(q) == [k |-> "num", a |-> q, b |-> Q(0), r |-> Q(0)]
Zero == Num(Q(0))
NaN == [k |-> "nan", a |-> Q(0), b |-> Q(0), r |-> Q(0)]
Inf == [k |-> "inf", a |-> Q(0), b |-> Q(0), r |-> Q(0)]
Surd(a, b, r) == IF b = Q(0) THEN Num(a) ELSE [k |-> "surd", a |-> a, b |-> b, r |-> r]

\* std::sqrt of a rational q >= 0
Sqrt(q) ==
    IF IsSquare(q[1]) /\ IsSquare(q[2])
    THEN Num(<<Root(q[1]), Root(q[2])>>)
    ELSE Surd(Q(0), Q(1), q)

\* multiplier * x and sma + y, sma - y for the values calculateBollingerBands meets
DScale(m, x) == Surd(QMul(m, x.a), QMul(m, x.b), x.r)
DAdd(x, y) == Surd(QAdd(x.a, y.a), y.b, y.r)
DSub(x, y) == Surd(QSub(x.a, y.a), QSub(Q(0), y.b), y.r)

\* x / y on doubles x, y >= 0: IEEE-754 gives +Inf for x > 0, y = 0 and NaN for 0 / 0
FDiv(x, y) ==
    IF y = Q(0) THEN (IF x = Q(0) THEN NaN ELSE Inf) ELSE Num(QDiv(x, y))

----------------------------------------------------------------------------
(* Reads of the vector *)

Size == Len(prices)

\* prices[i], i counted from 0 as in the source.  The functions below guard
\* every read they make; the ELSE branch is an indeterminate value and is
\* met only by a read past the end.
PriceAt(i) == IF i < Size THEN prices[i + 1] ELSE CHOOSE v \in PriceVals : TRUE

InRange(rs) == \A i \in rs : i < Size

\* The sums of the source's loops are taken over halves of the index range:
\* the terms and their total are those of the loop, the evaluation is shallower.
Mid(from, to) == from + (to - from) \div 2

RECURSIVE Accumulate(_, _)
\* std::accumulate(prices.begin() + from, prices.begin() + to, 0.0)
Accumulate(from, to) ==
    IF from >= to THEN 0
    ELSE IF to = from + 1 THEN PriceAt(from)
    ELSE Accumulate(from, Mid(from, to)) + Accumulate(Mid(from, to), to)

----------------------------------------------------------------------------
(* Indicator functions.  Each yields its return value and the set of        *)
(* indices of prices it read.  period is a positive int; the comparison    *)
(* prices.size() < period converts it to size_t, which keeps its value.    *)

None == [val |-> Zero, reads |-> {}]

\* lines 71-74
calculateSMA(period) ==
    IF Size < period
    THEN None
    ELSE [val |-> Num(QDiv(Q(Accumulate(0, period)), Q(period))),
          reads |-> 0..(period - 1)]

RECURSIVE EMALoop(_, _, _, _)
\* lines 80-82: for (i = 1; i < period; i++) ema = alpha * prices[i] + (1 - alpha) * ema
EMALoop(i, period, alpha, ema) ==
    IF i >= period THEN ema
    ELSE EMALoop(i + 1, period, alpha,
                 QAdd(QMul(alpha, Q(PriceAt(i))), QMul(QSub(Q(1), alpha), ema)))

\* lines 76-84
calculateEMA(period) ==
    IF Size < period
    THEN None
    ELSE LET alpha == QDiv(Q(2), Q(period + 1))
         IN  [val |-> Num(EMALoop(1, period, alpha, Q(PriceAt(0)))),
              reads |-> 0..(period - 1)]

RECURSIVE WMASum(_, _, _)
\* lines 90-94, sum: prices[i] * (period - i) for from <= i < to
WMASum(from, to, period) ==
    IF from >= to THEN 0
    ELSE IF to = from + 1 THEN PriceAt(from) * (period - from)
    ELSE WMASum(from, Mid(from, to), period) + WMASum(Mid(from, to), to, period)

RECURSIVE WMAWeights(_, _, _)
\* lines 90-94, weightSum: period - i for from <= i < to
WMAWeights(from, to, period) ==
    IF from >= to THEN 0
    ELSE IF to = from + 1 THEN period - from
    ELSE WMAWeights(from, Mid(from, to), period) + WMAWeights(Mid(from, to), to, period)

\* lines 86-96
calculateWMA(period) ==
    IF Size < period
    THEN None
    ELSE [val |-> Num(QDiv(Q(WMASum(0, period, period)), Q(WMAWeights(0, period, period)))),
          reads |-> 0..(period - 1)]

RECURSIVE SumSqDiff(_, _, _)
\* lines 103-105: sum_sq_diff += pow(prices[i] - mean, 2) for from <= i < to
SumSqDiff(from, to, mean) ==
    IF from >= to THEN Q(0)
    ELSE IF to = from + 1
         THEN LET diff == QSub(Q(PriceAt(from)), mean) IN QMul(diff, diff)
    ELSE QAdd(SumSqDiff(from, Mid(from, to), mean), SumSqDiff(Mid(from, to), to, mean))

\* lines 99-107
calculateStandardDeviation(period) ==
    IF Size < period
    THEN None
    ELSE LET mean == calculateSMA(period)
         IN  [val |-> Sqrt(QDiv(SumSqDiff(0, period, mean.val.a), Q(period))),
              reads |-> mean.reads \cup 0..(period - 1)]

\* lines 109-113; multiplier is an integer-valued double
calculateBollingerBands(period, multiplier, upper) ==
    LET sma == calculateSMA(period)
        std_dev == calculateStandardDeviation(period)
        scaled == DScale(Q(multiplier), std_dev.val)
    IN  [val |-> IF upper THEN DAdd(sma.val, scaled) ELSE DSub(sma.val, scaled),
         reads |-> sma.reads \cup std_dev.reads]

\* detectTrend with the unsigned guard on shortPeriod instead of longPeriod
detectTrendGuardShort(shortPeriod, longPeriod) ==
    IF Size < shortPeriod
    THEN [label |-> "Insufficient data", reads |-> {}]
    ELSE LET shortMA == calculateSMA(shortPeriod)
             longMA == calculateSMA(longPeriod)
         IN  [label |-> IF QLess(longMA.val.a, shortMA.val.a) THEN "Uptrend"
                        ELSE IF QLess(shortMA.val.a, longMA.val.a) THEN "Downtrend"
                        ELSE "Sideways",
              reads |-> shortMA.reads \cup longMA.reads]

\* lines 116-129
detectTrend(shortPeriod, longPeriod) ==
    IF Size < longPeriod
    THEN [label |-> "Insufficient data", reads |-> {}]
    ELSE LET shortMA == calculateSMA(shortPeriod)
             longMA == calculateSMA(longPeriod)
         IN  [label |-> IF QLess(longMA.val.a, shortMA.val.a) THEN "Uptrend"
                        ELSE IF QLess(shortMA.val.a, longMA.val.a) THEN "Downtrend"
                        ELSE "Sideways",
              reads |-> shortMA.reads \cup longMA.reads]

RECURSIVE GainLoss(_, _)
\* lines 135-142: <<avg_gain, avg_loss>> before the division by period
GainLoss(i, period) ==
    IF i > period THEN <<0, 0>>
    ELSE LET change == PriceAt(i - 1) - PriceAt(i)
             rest == GainLoss(i + 1, period)
         IN  IF change > 0 THEN <<rest[1] + change, rest[2]>>
                           ELSE <<rest[1], rest[2] - change>>

\* lines 134-147, the part of calculateRSI after its guard
RSIValue(period) ==
    LET gl == GainLoss(1, period)
        avg_gain == QDiv(Q(gl[1]), Q(period))
        avg_loss == QDiv(Q(gl[2]), Q(period))
        rs == FDiv(avg_gain, avg_loss)
    IN  [val |-> CASE rs.k = "nan" -> NaN
                   [] rs.k = "inf" -> Num(Q(100))
                   [] OTHER -> Num(QSub(Q(100), QDiv(Q(100), QAdd(Q(1), rs.a)))),
         reads |-> 0..period]

\* calculateRSI with the guard of the other indicators (no + 1)
calculateRSIGuardPeriod(period) ==
    IF Size < period THEN None ELSE RSIValue(period)

\* lines 131-148
calculateRSI(period) ==
    IF Size < period + 1 THEN None ELSE RSIValue(period)

----------------------------------------------------------------------------
(* Payloads *)

\* Keys of the "Time Series (1min)" object, numbered in the lexicographic
\* order of their strings.  Key 0 is a string std::get_time cannot parse;
\* keys 1, 2, ... are "%Y-%m-%d %H:%M:%S" strings one minute apart, whose
\* string order is their order in time.
Keys == 0..NKeys
KeyOK(k) == k >= 1

MinuteMs == 60000
\* std::mktime of the tm that a failed std::get_time leaves: no valid time, -1 s
FailedStampMs == -1000

\* lines 59-66: key string -> milliseconds since the epoch
Stamp(k) == IF KeyOK(k) THEN k * MinuteMs ELSE FailedStampMs

\* the "4. close" field: a string std::stod converts to v, or one it rejects
CloseVals == {-1, 1, 2}
NotANumber == [ok |-> FALSE, v |-> 0]
Closes == {[ok |-> TRUE, v |-> x] : x \in CloseVals} \cup {NotANumber}

\* a long flat market: FlatLen minutes at one price
FlatLen == 31
LongFlat == [kind |-> "series", ts |-> [k \in 1..FlatLen |-> [ok |-> TRUE, v |-> 2]]]

\* What fetchData can return: text that is no JSON (the empty buffer of a
\* failed transfer included), a JSON object without the time-series key (the
\* provider's rate-limit note), or an object holding the series.
Payloads ==
    {[kind |-> "invalid", ts |-> <<>>], [kind |-> "nokey", ts |-> <<>>], LongFlat}
    \cup {[kind |-> "series", ts |-> f] :
            f \in UNION {[S -> Closes] : S \in SUBSET Keys}}

NoPayload == [kind |-> "none", ts |-> <<>>]

Min(S) == CHOOSE x \in S : \A y \in S : x <= y

RECURSIVE ParseLoop(_, _, _, _)
\* lines 55-67.  nlohmann::json keeps an object in a std::map, so the
\* iteration runs over the keys in ascending string order.  std::stod throws
\* std::invalid_argument on a close that is no number, before the push_back.
ParseLoop(rest, ts, ps, tms) ==
    IF rest = {}
    THEN [prices |-> ps, timestamps |-> tms, thrown |-> ""]
    ELSE LET k == Min(rest)
         IN  IF ~ts[k].ok
             THEN [prices |-> ps, timestamps |-> tms, thrown |-> "std::invalid_argument"]
             ELSE ParseLoop(rest \ {k}, ts, Append(ps, ts[k].v), Append(tms, Stamp(k)))

\* parseData without the two clear() calls
parseDataNoClear(data) ==
    IF data.kind = "invalid"
    THEN [prices |-> prices, timestamps |-> timestamps, thrown |-> "json::parse_error"]
    ELSE ParseLoop(DOMAIN data.ts, data.ts, prices, timestamps)

\* lines 48-68: the members after the call, and the exception it left by
parseData(data) ==
    IF data.kind = "invalid"
    THEN [prices |-> prices, timestamps |-> timestamps, thrown |-> "json::parse_error"]
    ELSE ParseLoop(DOMAIN data.ts, data.ts, <<>>, <<>>)

----------------------------------------------------------------------------
(* run() *)

SMAPeriod == 5
EMAPeriod == 10
WMAPeriod == 20
StdDevPeriod == 20
BandPeriod == 20
BandMultiplier == 2
TrendShort == 10
TrendLong == 30
RSIPeriod == 14

NoReport ==
    [printed |-> FALSE, latest |-> 0, sma |-> Zero, ema |-> Zero, wma |-> Zero,
     std_dev |-> Zero, upper |-> Zero, lower |-> Zero, trend |-> "", rsi |-> Zero]

\* lines 159-173: the values printed, latest standing for prices[0]
Render(latest) ==
    [printed |-> TRUE, latest |-> latest,
     sma |-> calculateSMA(SMAPeriod).val,
     ema |-> calculateEMA(EMAPeriod).val,
     wma |-> calculateWMA(WMAPeriod).val,
     std_dev |-> calculateStandardDeviation(StdDevPeriod).val,
     upper |-> calculateBollingerBands(BandPeriod, BandMultiplier, TRUE).val,
     lower |-> calculateBollingerBands(BandPeriod, BandMultiplier, FALSE).val,
     trend |-> detectTrend(TrendShort, TrendLong).label,
     rsi |-> calculateRSI(RSIPeriod).val]

\* lines 160-173: the indices of prices the report reads
ReportReads ==
    {0} \cup calculateSMA(SMAPeriod).reads \cup calculateEMA(EMAPeriod).reads
        \cup calculateWMA(WMAPeriod).reads
        \cup calculateStandardDeviation(StdDevPeriod).reads
        \cup calculateBollingerBands(BandPeriod, BandMultiplier, TRUE).reads
        \cup calculateBollingerBands(BandPeriod, BandMultiplier, FALSE).reads
        \cup detectTrend(TrendShort, TrendLong).reads
        \cup calculateRSI(RSIPeriod).reads

NoCall ==
    [fn |-> "none", period |-> 0, other |-> 0, upper |-> FALSE,
     val |-> Zero, label |-> "", reads |-> {}]

Init ==
    /\ pc = "Fetching"
    /\ payload = NoPayload
    /\ prices = <<>>
    /\ timestamps = <<>>
    /\ report = NoReport
    /\ reads = {}
    /\ err = ""
    /\ call = NoCall

\* line 156: data = fetchData()
Fetch ==
    /\ pc = "Fetching"
    /\ \E d \in Payloads : payload' = d
    /\ pc' = "Parsing"
    /\ reads' = {}
    /\ UNCHANGED <<prices, timestamps, report, err, call>>

\* line 157: parseData(data); run() has no handler, an exception ends the process
Parse ==
    /\ pc = "Parsing"
    /\ LET r == parseData(payload)
       IN  /\ prices' = r.prices
           /\ timestamps' = r.timestamps
           /\ err' = r.thrown
           /\ pc' = IF r.thrown = "" THEN "Report" ELSE "Terminated"
    /\ UNCHANGED <<payload, report, reads, call>>

\* lines 159-175 on a series with at least one point
ReportSeries ==
    /\ pc = "Report"
    /\ Size > 0
    /\ report' = Render(prices[1])
    /\ reads' = ReportReads
    /\ pc' = "Sleeping"
    /\ UNCHANGED <<payload, prices, timestamps, err, call>>

\* lines 159-175 on an empty series: prices[0] reads past the end of the
\* vector, which either yields whatever the memory holds or faults
ReportEmpty ==
    /\ pc = "Report"
    /\ Size = 0
    /\ reads' = ReportReads
    /\ \/ /\ \E g \in CloseVals : report' = Render(g)
          /\ pc' = "Sleeping"
          /\ err' = err
       \/ /\ pc' = "Terminated"
          /\ err' = "SIGSEGV"
          /\ report' = report
    /\ UNCHANGED <<payload, prices, timestamps, call>>

\* line 176: sleep_for(update_interval), then the next iteration
Sleep ==
    /\ pc = "Sleeping"
    /\ pc' = "Fetching"
    /\ UNCHANGED <<payload, prices, timestamps, report, reads, err, call>>

Next == Fetch \/ Parse \/ ReportSeries \/ ReportEmpty \/ Sleep

Spec == Init /\ [][Next]_vars

----------------------------------------------------------------------------
(* The indicator functions called directly, on any series up to MaxLen *)

Series == UNION {[1..n -> PriceVals] : n \in 0..MaxLen} \cup Examples

InitFn ==
    /\ pc = "Idle"
    /\ payload = NoPayload
    /\ prices \in Series
    /\ timestamps = [i \in 1..Len(prices) |-> Stamp(i)]
    /\ report = NoReport
    /\ reads = {}
    /\ err = ""
    /\ call = NoCall

\* the record of a call: its arguments, its return value and what it read
Returned(fn, period, other, upper, r) ==
    [fn |-> fn, period |-> period, other |-> other, upper |-> upper,
     val |-> r.val, label |-> "", reads |-> r.reads]

Frame == <<payload, prices, timestamps, report, reads, err>>

CallSMA ==
    /\ pc = "Idle"
    /\ \E p \in Periods : call' = Returned("calculateSMA", p, 0, FALSE, calculateSMA(p))
    /\ pc' = "Returned"
    /\ UNCHANGED Frame

CallEMA ==
    /\ pc = "Idle"
    /\ \E p \in Periods : call' = Returned("calculateEMA", p, 0, FALSE, calculateEMA(p))
    /\ pc' = "Returned"
    /\ UNCHANGED Frame

CallWMA ==
    /\ pc = "Idle"
    /\ \E p \in Periods : call' = Returned("calculateWMA", p, 0, FALSE, calculateWMA(p))
    /\ pc' = "Returned"
    /\ UNCHANGED Frame

CallStandardDeviation ==
    /\ pc = "Idle"
    /\ \E p \in Periods :
         call' = Returned("calculateStandardDeviation", p, 0, FALSE,
                          calculateStandardDeviation(p))
    /\ pc' = "Returned"
    /\ UNCHANGED Frame

CallBollingerBands ==
    /\ pc = "Idle"
    /\ \E p \in Periods, m \in Multipliers, u \in BOOLEAN :
         call' = Returned("calculateBollingerBands", p, m, u,
                          calculateBollingerBands(p, m, u))
    /\ pc' = "Returned"
    /\ UNCHANGED Frame

CallRSI ==
    /\ pc = "Idle"
    /\ \E p \in Periods : call' = Returned("calculateRSI", p, 0, FALSE, calculateRSI(p))
    /\ pc' = "Returned"
    /\ UNCHANGED Frame

CallDetectTrend ==
    /\ pc = "Idle"
    /\ \E sp \in Periods, lp \in Periods :
         LET r == detectTrend(sp, lp)
         IN  call' = [fn |-> "detectTrend", period |-> sp, other |-> lp,
                      upper |-> FALSE, val |-> Zero, label |-> r.label,
                      reads |-> r.reads]
    /\ pc' = "Returned"
    /\ UNCHANGED Frame

NextFn ==
    \/ CallSMA \/ CallEMA \/ CallWMA \/ CallStandardDeviation
    \/ CallBollingerBands \/ CallRSI \/ CallDetectTrend

SpecFn == InitFn /\ [][NextFn]_vars

----------------------------------------------------------------------------
(* Properties of the indicator functions (SpecFn) *)

NumericFns ==
    {"calculateSMA", "calculateEMA", "calculateWMA", "calculateStandardDeviation",
     "calculateBollingerBands", "calculateRSI"}

\* the series is too short for the call: period > length, or, for
\* calculateRSI, period = length as well
TooShort ==
    \/ call.period > Size
    \/ call.fn = "calculateRSI" /\ call.period = Size

\* C1: every indicator function called with a period greater than the length
\* of the series (calculateRSI: greater than or equal to it) returns exactly 0
\* and reads no element outside the series, for both bands and every multiplier.
C1_InsufficientDataIsZero ==
    (call.fn \in NumericFns /\ TooShort) => (call.val = Zero /\ InRange(call.reads))

C1_Witness ==
    /\ call.fn = "calculateRSI"
    /\ Size >= 1
    /\ call.period = Size
    /\ call.val = Zero

\* C6: detectTrend(shortPeriod, longPeriod) returns "Insufficient data" exactly
\* when the series is shorter than longPeriod; otherwise "Uptrend" when
\* SMA(shortPeriod) > SMA(longPeriod), "Downtrend" when it is less and
\* "Sideways" when the two are equal; with short = 2 and long = 4 the series
\* [10,10,10,10] is Sideways and [10,9,1,1] is an Uptrend.
C6_TrendClassification ==
    call.fn = "detectTrend" =>
        LET shortMA == calculateSMA(call.period).val.a
            longMA == calculateSMA(call.other).val.a
        IN  /\ (call.label = "Insufficient data") <=> (Size < call.other)
            /\ Size >= call.other =>
                 /\ (call.label = "Uptrend") <=> QLess(longMA, shortMA)
                 /\ (call.label = "Downtrend") <=> QLess(shortMA, longMA)
                 /\ (call.label = "Sideways") <=> (shortMA = longMA)
            /\ (prices = <<10, 10, 10, 10>> /\ call.period = 2 /\ call.other = 4)
                 => call.label = "Sideways"
            /\ (prices = <<10, 9, 1, 1>> /\ call.period = 2 /\ call.other = 4)
                 => call.label = "Uptrend"

C6_Witness ==
    /\ call.fn = "detectTrend"
    /\ prices = <<10, 9, 1, 1>>
    /\ call.period = 2
    /\ call.other = 4
    /\ call.label = "Uptrend"

\* avg_loss == 0 over the window 0..period: no change prices[i-1] - prices[i]
\* (i = 1..period, counted from 0) is negative
NoLoss(period) == \A i \in 1..period : prices[i] - prices[i + 1] >= 0

\* C7: calculateRSI on a series of at least period + 1 points whose window has
\* avg_loss == 0 (the all-equal window included) returns the defined value 100.
C7_NoLossGives100 ==
    (call.fn = "calculateRSI" /\ Size >= call.period + 1 /\ NoLoss(call.period))
        => call.val = Num(Q(100))

\* C10: whenever detectTrend returns a label other than "Insufficient data",
\* the series is at least shortPeriod and at least longPeriod long, so neither
\* compared average is the sentinel 0 of calculateSMA.
C10_TrendComparesFullWindows ==
    (call.fn = "detectTrend" /\ call.label # "Insufficient data")
        => (Size >= call.period /\ Size >= call.other)

----------------------------------------------------------------------------
(* Properties of the polling loop (Spec) *)

Max(S) == CHOOSE x \in S : \A y \in S : x >= y

\* an entry the specification calls malformed: a timestamp that does not
\* parse, or a close that is no non-negative number
Malformed(data, k) == ~KeyOK(k) \/ ~data.ts[k].ok \/ data.ts[k].v < 0
MalformedKeys(data) == {k \in DOMAIN data.ts : Malformed(data, k)}
ValidKeys(data) == DOMAIN data.ts \ MalformedKeys(data)

\* parseData has returned or thrown
ParseEnded == pc = "Report" \/ (pc = "Terminated" /\ err # "SIGSEGV")

\* C2: when the report is computed, the timestamps are strictly decreasing
\* with the index and prices[0] is the close of the latest timestamp of the
\* payload (stated here for payloads all of whose entries are well-formed).
C2_NewestFirst ==
    (pc = "Report" /\ Size >= 1 /\ MalformedKeys(payload) = {}) =>
        /\ \A i \in 1..(Len(timestamps) - 1) : timestamps[i] > timestamps[i + 1]
        /\ prices[1] = payload.ts[Max(DOMAIN payload.ts)].v

\* C3: a payload of N valid entries and one malformed entry gives a series of
\* exactly N points without failure when N >= 1, and fails with EmptySeries
\* when N = 0.
C3_MalformedEntryDropped ==
    (ParseEnded /\ payload.kind = "series" /\ Cardinality(MalformedKeys(payload)) = 1)
        => IF Cardinality(ValidKeys(payload)) >= 1
           THEN pc = "Report" /\ Size = Cardinality(ValidKeys(payload))
           ELSE pc = "Terminated" /\ err = "EmptySeries"

\* C4: the polling loop never ends on its own: no fetch or parse failure and
\* no empty series ends the process.
C4_LoopNeverEnds == pc # "Terminated"

\* C5: every read of prices at an index i made by a cycle has i < length.
C5_ReadsInRange == InRange(reads)

\* C9: when the indicators of a cycle are computed, and after they are, the
\* series holds exactly the points of that cycle's payload, one per entry,
\* and prices and timestamps have the same length.
C9_SeriesIsThisCyclesPayload ==
    pc \in {"Report", "Sleeping"} =>
        /\ Len(prices) = Len(timestamps)
        /\ Len(prices) = Cardinality(DOMAIN payload.ts)
        /\ \A k \in DOMAIN payload.ts :
             \E i \in 1..Len(prices) :
                 prices[i] = payload.ts[k].v /\ timestamps[i] = Stamp(k)

\* a later cycle at its report, after an earlier cycle printed another latest price
C9_Witness ==
    /\ pc = "Report"
    /\ report.printed
    /\ Size >= 1
    /\ report.latest # prices[1]

====
